---- MODULE Spec2Model ----
(***************************************************************************)
(* crypto-api-server: the summary cache (inmemorycache.CurrencyCache), the *)
(* read-through resolver (Wrappers.GetMarketSummary) behind the HTTP       *)
(* handler, the feed coordinator (Wrappers.FeedConnect / subscribeFeeds /  *)
(* handleTicker) and the push transport it drives (wsclient.WSClient,      *)
(* responseChannels.Handle).                                               *)
(*                                                                         *)
(* Goroutines are modelled as processes with a program counter; a step of  *)
(* the model is one synchronisation-relevant step of the Go code (a lock   *)
(* acquisition, a critical section, a channel operation, a map access of   *)
(* the unsynchronised feed table, one side of a remote call).              *)
(***************************************************************************)
EXTENDS Integers, Sequences, FiniteSets, TLC

(***************************************************************************)
(* Values                                                                  *)
(***************************************************************************)

\* Natural numbers of any size, as their decimal digits (0..9), most
\* significant first, with no leading zero: zero is the empty sequence.
BigDouble(a) ==
    LET n == Len(a)
        d == [i \in 1..n |-> (2 * a[i] + (IF i < n /\ a[i + 1] >= 5 THEN 1 ELSE 0)) % 10]
    IN  IF n > 0 /\ a[1] >= 5 THEN <<1>> \o d ELSE d \o <<>>

\* a \div 2.
BigHalf(a) ==
    LET n == Len(a)
        h == [i \in 1..n |-> (a[i] + (IF i > 1 /\ a[i - 1] % 2 = 1 THEN 10 ELSE 0)) \div 2]
    IN  IF n > 0 /\ a[1] = 1 THEN SubSeq(h, 2, n) ELSE h \o <<>>

BigIsOdd(a) == a # <<>> /\ a[Len(a)] % 2 = 1

\* a + 1.
BigSucc(a) ==
    LET n == Len(a)
        low == {i \in 1..n : a[i] # 9}
    IN  IF low = {} THEN <<1>> \o [i \in 1..n |-> 0]
        ELSE LET j == CHOOSE x \in low : \A y \in low : y <= x
             IN  [i \in 1..n |-> IF i < j THEN a[i] ELSE IF i = j THEN a[i] + 1 ELSE 0] \o <<>>

BigGE(a, b) ==
    IF Len(a) # Len(b) THEN Len(a) > Len(b)
    ELSE LET d == {i \in 1..Len(a) : a[i] # b[i]}
         IN  d = {} \/ LET i == CHOOSE x \in d : \A y \in d : x <= y
                       IN  a[i] > b[i]

\* 2^53, which a float64 mantissa is below, and 2^52.
TwoTo53 == <<9, 0, 0, 7, 1, 9, 9, 2, 5, 4, 7, 4, 0, 9, 9, 2>>
TwoTo52 == <<4, 5, 0, 3, 5, 9, 9, 6, 2, 7, 3, 7, 0, 4, 9, 6>>

\* A float64. inf is 0 for a finite value, which is (-1)^neg * mant * 2^exp
\* with mant an odd natural number given by its decimal digits (or <<0>>, with
\* exp 0, for a zero); inf is 1 for +Inf, -1 for -Inf and 2 for NaN.
Finite(neg, mant, exp) == [inf |-> 0, neg |-> neg, mant |-> mant, exp |-> exp]
Zero(neg) == Finite(neg, <<0>>, 0)
PosInf == [inf |-> 1, neg |-> FALSE, mant |-> <<0>>, exp |-> 0]
NegInf == [inf |-> -1, neg |-> TRUE, mant |-> <<0>>, exp |-> 0]
NaN == [inf |-> 2, neg |-> FALSE, mant |-> <<0>>, exp |-> 0]
Inf(neg) == IF neg THEN NegInf ELSE PosInf

\* A number n * 2^e on its way to a float64: round is the last bit shifted out
\* of n, sticky whether any bit shifted out before it was set. A bit is still
\* to be shifted out while n has more than 53 bits or e is below the least
\* exponent. ShiftN makes up to 2^k such steps, one half of them after the
\* other (the singleton set holds the state between the halves).
MustShift(st) == BigGE(st.n, TwoTo53) \/ st.e < -1074
Shift(st) ==
    [n |-> BigHalf(st.n), e |-> st.e + 1, round |-> BigIsOdd(st.n),
     sticky |-> st.sticky \/ st.round]
RECURSIVE ShiftN(_, _)
ShiftN(st, k) ==
    IF ~MustShift(st) THEN st
    ELSE IF k = 0 THEN Shift(st)
    ELSE CHOOSE r \in {ShiftN(half, k - 1) : half \in {ShiftN(st, k - 1)}} : TRUE
RECURSIVE ShiftAll(_)
ShiftAll(st) ==
    IF ~MustShift(st) THEN st
    ELSE CHOOSE r \in {ShiftAll(s) : s \in {ShiftN(st, 10)}} : TRUE

\* n * 2^e, n > 0, with n halved while it is even; HalveN makes up to 2^k
\* halvings.
RECURSIVE HalveN(_, _)
HalveN(st, k) ==
    IF BigIsOdd(st.mant) THEN st
    ELSE IF k = 0 THEN [mant |-> BigHalf(st.mant), exp |-> st.exp + 1]
    ELSE CHOOSE r \in {HalveN(half, k - 1) : half \in {HalveN(st, k - 1)}} : TRUE
RECURSIVE OddPart(_, _)
OddPart(n, e) ==
    IF BigIsOdd(n) THEN [mant |-> n, exp |-> e]
    ELSE CHOOSE r \in {OddPart(h.mant, h.exp) :
                          h \in {HalveN([mant |-> n, exp |-> e], 6)}} : TRUE

\* n * 2^e, n > 0, with n brought up to 53 bits while e is above the greatest
\* exponent of a float64; WidenN makes up to 2^k doublings.
MustWiden(st) == st.e > 971 /\ ~BigGE(st.n, TwoTo52)
RECURSIVE WidenN(_, _)
WidenN(st, k) ==
    IF ~MustWiden(st) THEN st
    ELSE IF k = 0 THEN [n |-> BigDouble(st.n), e |-> st.e - 1]
    ELSE CHOOSE r \in {WidenN(half, k - 1) : half \in {WidenN(st, k - 1)}} : TRUE
Widen(n, e) == WidenN([n |-> n, e |-> e], 6)

\* The float64 nearest to the number st stands for, ties to the even mantissa,
\* and the range error when it is 2^1024 or more: st is shifted to 53 bits r,
\* r rounded to n, and n * 2^e packed (w is n widened, o its odd part).
Pack(neg, w, o) ==
    IF w.e > 971 \/ (w.e = 971 /\ w.n = TwoTo53)
    THEN [f |-> Inf(neg), err |-> "range"]
    ELSE [f |-> Finite(neg, o.mant, o.exp), err |-> ""]
PackRounded(neg, n, e) ==
    IF n = <<>> THEN [f |-> Zero(neg), err |-> ""]
    ELSE Pack(neg, Widen(n, e), OddPart(n, e))
RoundShifted(neg, r) ==
    PackRounded(neg, IF r.round /\ (r.sticky \/ BigIsOdd(r.n)) THEN BigSucc(r.n) ELSE r.n,
                r.e)
RoundBinary(neg, st) == RoundShifted(neg, ShiftAll(st))

\* n doubled until it has len digits, counting the doublings in s; GrowN
\* makes up to 2^k doublings.
Grow(st) == [n |-> BigDouble(st.n), s |-> st.s + 1]
RECURSIVE GrowN(_, _, _)
GrowN(st, len, k) ==
    IF Len(st.n) >= len THEN st
    ELSE IF k = 0 THEN Grow(st)
    ELSE CHOOSE r \in {GrowN(half, len, k - 1) : half \in {GrowN(st, len, k - 1)}} : TRUE
RECURSIVE GrowAll(_, _)
GrowAll(st, len) ==
    IF Len(st.n) >= len THEN st
    ELSE CHOOSE r \in {GrowAll(s, len) : s \in {GrowN(st, len, 10)}} : TRUE

\* The float64 nearest to ds * 10^k, ds significant decimal digits (no leading
\* zero, not empty): overflow from 10^310 on, zero below 10^-331. A fraction
\* ds / 10^m is taken as floor(ds * 2^s / 10^m) * 2^-s with s large enough for
\* the quotient to have 18 digits, the digits cut off being sticky.
Fraction(g, k) ==
    [n |-> SubSeq(g.n, 1, Len(g.n) + k), e |-> -g.s, round |-> FALSE,
     sticky |-> \E i \in (Len(g.n) + k + 1)..Len(g.n) : g.n[i] # 0]
RoundDecimal(neg, ds, k) ==
    IF Len(ds) + k > 310 THEN [f |-> Inf(neg), err |-> "range"]
    ELSE IF Len(ds) + k < -330 THEN [f |-> Zero(neg), err |-> ""]
    ELSE RoundBinary(neg,
             IF k >= 0
             THEN [n |-> ds \o [i \in 1..k |-> 0], e |-> 0, round |-> FALSE,
                   sticky |-> FALSE]
             ELSE Fraction(GrowAll([n |-> ds, s |-> 0], 18 - k), k))

\* The natural number with the given hexadecimal digits, bit by bit.
AddBit(a, b) ==
    LET d == BigDouble(a)
    IN  IF b = 0 THEN d ELSE IF d = <<>> THEN <<1>> ELSE [d EXCEPT ![Len(d)] = @ + 1]
AddHex(a, h) == AddBit(AddBit(AddBit(AddBit(a, h \div 8), (h \div 4) % 2), (h \div 2) % 2), h % 2)
RECURSIVE BigOfHex(_, _)
BigOfHex(hs, acc) ==
    IF hs = <<>> THEN acc
    ELSE CHOOSE r \in {BigOfHex(Tail(hs), a) : a \in {AddHex(acc, Head(hs))}} : TRUE

\* The float64 nearest to hs * 2^k, hs significant hexadecimal digits (no
\* leading zero, not empty): as readFloat does, the first 16 digits make the
\* mantissa and the digits after them are sticky.
RoundHex(neg, hs, k) ==
    LET kept == IF Len(hs) > 16 THEN 16 ELSE Len(hs)
        e == k + 4 * (Len(hs) - kept)
    IN  IF e > 1100 THEN [f |-> Inf(neg), err |-> "range"]
        ELSE IF e < -1150 THEN [f |-> Zero(neg), err |-> ""]
        ELSE RoundBinary(neg, [n |-> BigOfHex(SubSeq(hs, 1, kept), <<>>), e |-> e,
                               round |-> FALSE,
                               sticky |-> \E i \in (kept + 1)..Len(hs) : hs[i] # 0])

(***************************************************************************)
(* Strings and strconv.ParseFloat                                          *)
(***************************************************************************)


\* A Go string handed to a conversion is a sequence of one-character strings.
Digits == <<"0", "1", "2", "3", "4", "5", "6", "7", "8", "9">>
HexDigits == Digits \o <<"a", "b", "c", "d", "e", "f">>
UpperLetters == <<"A", "B", "C", "D", "E", "F", "G", "H", "I", "J", "K", "L", "M",
                  "N", "O", "P", "Q", "R", "S", "T", "U", "V", "W", "X", "Y", "Z">>
LowerLetters == <<"a", "b", "c", "d", "e", "f", "g", "h", "i", "j", "k", "l", "m",
                  "n", "o", "p", "q", "r", "s", "t", "u", "v", "w", "x", "y", "z">>
IsDigit(c) == \E i \in 1..10 : Digits[i] = c
IsHexDigit(c) == \E i \in 1..16 : HexDigits[i] = c
DigitVal(c) == (CHOOSE i \in 1..16 : HexDigits[i] = c) - 1

LowerChar(c) ==
    IF \E i \in 1..26 : UpperLetters[i] = c
    THEN LowerLetters[CHOOSE i \in 1..26 : UpperLetters[i] = c] ELSE c
UpperChar(c) ==
    IF \E i \in 1..26 : LowerLetters[i] = c
    THEN UpperLetters[CHOOSE i \in 1..26 : LowerLetters[i] = c] ELSE c
Lower(s) == [i \in 1..Len(s) |-> LowerChar(s[i])]

\* Index of the first element of s that is in cs, 0 if none.
FirstOf(s, cs) ==
    IF \E i \in 1..Len(s) : s[i] \in cs
    THEN CHOOSE i \in 1..Len(s) : s[i] \in cs /\ \A j \in 1..(i - 1) : s[j] \notin cs
    ELSE 0

\* s without its underscores.
NoUnderscore(s) ==
    LET keep == {i \in 1..Len(s) : s[i] # "_"}
    IN  IF Cardinality(keep) = Len(s) THEN s
        ELSE [j \in 1..Cardinality(keep) |->
                 s[CHOOSE i \in keep : Cardinality({x \in keep : x <= i}) = j]] \o <<>>

\* The values of the digits of ds from its first non-zero digit on.
Significant(ds) ==
    LET nz == {i \in 1..Len(ds) : ds[i] # "0"}
    IN  IF nz = {} THEN <<>>
        ELSE LET first == CHOOSE x \in nz : \A y \in nz : x <= y
             IN  [i \in 1..(Len(ds) - first + 1) |-> DigitVal(ds[first + i - 1])] \o <<>>

\* The exponent readFloat accumulates from digits ds: it stops growing once it
\* is 10000 or more, that is after five significant digits.
RECURSIVE NatVal(_)
NatVal(ds) ==
    IF ds = <<>> THEN 0 ELSE NatVal(SubSeq(ds, 1, Len(ds) - 1)) * 10 + ds[Len(ds)]
ExpVal(ds) ==
    LET sig == Significant(ds)
    IN  NatVal(IF Len(sig) > 5 THEN SubSeq(sig, 1, 5) ELSE sig)

\* strconv's underscoreOK: every underscore follows a digit or the base prefix
\* and is followed by a digit (a hexadecimal one after 0x).
UnderscoreOK(s) ==
    LET t == IF s # <<>> /\ Head(s) \in {"+", "-"} THEN Tail(s) ELSE s
        prefix == Len(t) >= 2 /\ t[1] = "0" /\ LowerChar(t[2]) \in {"b", "o", "x"}
        hex == prefix /\ LowerChar(t[2]) = "x"
        first == IF prefix THEN 3 ELSE 1
        IsDig(c) == IsDigit(c) \/ (hex /\ IsHexDigit(LowerChar(c)))
    IN  \A i \in first..Len(t) :
            t[i] = "_" => /\ (prefix /\ i = first) \/ (i > first /\ IsDig(t[i - 1]))
                          /\ i < Len(t) /\ IsDig(t[i + 1])

\* The parts of a number without its sign and in lower case: whether it is
\* hexadecimal, the place of its exponent letter (0 if none), and the text
\* before and after that letter.
IsHex(low) == Len(low) > 2 /\ low[1] = "0" /\ low[2] = "x"
Parts(hex, num, epos) ==
    [hex |-> hex, epos |-> epos,
     mant |-> IF epos = 0 THEN num ELSE SubSeq(num, 1, epos - 1),
     expo |-> IF epos = 0 THEN <<>> ELSE SubSeq(num, epos + 1, Len(num))]
PartsOf(hex, num) == Parts(hex, num, FirstOf(num, {IF hex THEN "p" ELSE "e"}))

\* The fields of the parts p: the digits before and after the point at dot
\* (0 if none), the exponent's sign and its digits.
Fields(p, dot) ==
    [hex |-> p.hex, epos |-> p.epos,
     ipart |-> NoUnderscore(IF dot = 0 THEN p.mant ELSE SubSeq(p.mant, 1, dot - 1)),
     fpart |-> NoUnderscore(IF dot = 0 THEN <<>>
                            ELSE SubSeq(p.mant, dot + 1, Len(p.mant))),
     eneg |-> p.expo # <<>> /\ Head(p.expo) = "-",
     edigits |-> IF p.expo # <<>> /\ Head(p.expo) \in {"+", "-"}
                 THEN Tail(p.expo) ELSE p.expo]
FieldsOf(p) == Fields(p, FirstOf(p.mant, {"."}))

\* Whether the fields q of the string s make a number of the syntax.
WellFormed(s, q) ==
    /\ \A i \in 1..Len(q.ipart) :
          IF q.hex THEN IsHexDigit(q.ipart[i]) ELSE IsDigit(q.ipart[i])
    /\ \A i \in 1..Len(q.fpart) :
          IF q.hex THEN IsHexDigit(q.fpart[i]) ELSE IsDigit(q.fpart[i])
    /\ Len(q.ipart) + Len(q.fpart) >= 1
    /\ q.hex => q.epos # 0
    /\ q.epos # 0 =>
          /\ q.edigits # <<>> /\ IsDigit(Head(q.edigits))
          /\ \A i \in 1..Len(q.edigits) : IsDigit(q.edigits[i]) \/ q.edigits[i] = "_"
    /\ (\E i \in 1..Len(s) : s[i] = "_") => UnderscoreOK(s)

\* The value of significant digits sig with exponent e and fields q.
Value(neg, q, sig, e) ==
    IF sig = <<>> THEN [f |-> Zero(neg), err |-> ""]
    ELSE IF q.hex THEN RoundHex(neg, sig, e - 4 * Len(q.fpart))
    ELSE RoundDecimal(neg, sig, e - Len(q.fpart))
Number(s, neg, q) ==
    IF ~WellFormed(s, q) THEN [f |-> Zero(FALSE), err |-> "syntax"]
    ELSE Value(neg, q, Significant(q.ipart \o q.fpart),
               (IF q.eneg THEN -1 ELSE 1) * ExpVal(NoUnderscore(q.edigits)))
Special(s, signed, neg, low) ==
    IF low = <<"i", "n", "f">> \/ low = <<"i", "n", "f", "i", "n", "i", "t", "y">>
    THEN [f |-> Inf(neg), err |-> ""]
    ELSE IF low = <<"n", "a", "n">>
    THEN (IF signed THEN [f |-> Zero(FALSE), err |-> "syntax"] ELSE [f |-> NaN, err |-> ""])
    ELSE Number(s, neg, FieldsOf(PartsOf(IsHex(low),
                                         IF IsHex(low) THEN SubSeq(low, 3, Len(low))
                                         ELSE low)))

\* The conversion behind strconv.ParseFloat(s, 64), on Go's floating-point syntax
\*   [+-] ( digits [. digits] | . digits ) [ (e|E) [+-] digits ]
\*   [+-] 0(x|X) ( hexdigits [. hexdigits] | . hexdigits ) (p|P) [+-] digits
\*   [+-] inf | [+-] infinity | nan          (in any letter case)
\* with underscores allowed where UnderscoreOK says. Returns the value and the
\* error: "" (nil), "syntax" (ErrSyntax: the value is 0) or "range" (ErrRange:
\* the value is +-Inf). The value is the nearest float64, ties to even.
Atof64(s) ==
    Special(s, s # <<>> /\ Head(s) \in {"+", "-"}, s # <<>> /\ Head(s) = "-",
            Lower(IF s # <<>> /\ Head(s) \in {"+", "-"} THEN Tail(s) ELSE s))

\* A float64 given in thousandths, as the REST endpoint's decoder yields it.
RECURSIVE NatDigits(_)
NatDigits(n) == IF n = 0 THEN <<>> ELSE Append(NatDigits(n \div 10), n % 10)
F(m) == IF m = 0 THEN Zero(FALSE)
        ELSE RoundDecimal(m < 0, NatDigits(IF m < 0 THEN -m ELSE m), -3).f

\* strings.ToUpper on a string of ASCII characters, character by character.
RECURSIVE ToUpper(_)
ToUpper(s) ==
    IF s = "" THEN ""
    ELSE UpperChar(SubSeq(s, 1, 1)) \o ToUpper(SubSeq(s, 2, Len(s)))

(***************************************************************************)
(* Configuration published at startup                                      *)
(***************************************************************************)

\* wrappers.supportedSymbols: the ordered sequence of symbols whose records
\* are persisted and whose feeds are subscribed.
supportedSymbols == <<"ETHBTC", "BTCUSD">>

\* Wrappers.AllSymbols and the two enrichment tables as CacheAllSymbols and
\* CacheFullName leave them when the exchange lists three symbols: every
\* listed symbol has a fee currency; the fee currency of BTCUSD has no
\* display name.
AllSymbols == <<"ETHBTC", "BTCUSD", "XRPBTC">>
SymbolsFeeCurrency == [s \in {AllSymbols[i] : i \in 1..Len(AllSymbols)} |->
                          IF s = "BTCUSD" THEN "USD" ELSE "BTC"]
CurrencyFullName == [c \in {"BTC"} |-> "Bitcoin"]

\* Wrappers.Contains: membership in a slice, by string equality.
Contains(s, str) == \E i \in 1..Len(s) : s[i] = str

\* The {symbol} path variable of the requests clients send to the HTTP
\* handler: listed symbols, and a listed symbol in lower case.
RequestKeys == {"ETHBTC", "BTCUSD", "XRPBTC", "ethbtc"}

\* Symbols that users of the wrappers package pass to GetMarketSummary when
\* they call it themselves; the exchange lists LTCBTC only after the tables
\* were filled.
LookupSymbols == {"ETHBTC", "ethbtc", "XRPBTC"}
UnlistedSymbols == {"LTCBTC"}

\* A nil *wsclient.Ticker.
Nil == [nil |-> TRUE]

\* The numeric part of a quote as the REST endpoint answers it (decoded).
Quotes == {
    [Last |-> F(33), Ask |-> F(34), Bid |-> F(32), Open |-> F(30), Low |-> F(29),
     High |-> F(36), Volume |-> F(1000), VolumeQuote |-> F(33000), Timestamp |-> 1],
    [Last |-> F(35), Ask |-> F(36), Bid |-> F(34), Open |-> F(30), Low |-> F(29),
     High |-> F(37), Volume |-> F(1200), VolumeQuote |-> F(42000), Timestamp |-> 2] }

\* HitBtc.GetTicker: the endpoint public/ticker/<ToUpper(market)> answers
\* with the ticker of that market.
ApiGetTicker(market, q) ==
    [ID |-> "", FullName |-> "", Ask |-> q.Ask, Bid |-> q.Bid, Last |-> q.Last,
     Open |-> q.Open, Low |-> q.Low, High |-> q.High, Volume |-> q.Volume,
     VolumeQuote |-> q.VolumeQuote, Timestamp |-> q.Timestamp,
     Symbol |-> ToUpper(market), FeeCurrency |-> ""]

\* Wrappers.GetTicker: copies the ten quote fields, leaves the rest zero.
GetTicker(symbol, q) ==
    LET hitbtcTicker == ApiGetTicker(symbol, q)
    IN  [ID |-> "", FullName |-> "", Ask |-> hitbtcTicker.Ask,
         Bid |-> hitbtcTicker.Bid, Last |-> hitbtcTicker.Last,
         Open |-> hitbtcTicker.Open, Low |-> hitbtcTicker.Low,
         High |-> hitbtcTicker.High, Volume |-> hitbtcTicker.Volume,
         VolumeQuote |-> hitbtcTicker.VolumeQuote,
         Timestamp |-> hitbtcTicker.Timestamp,
         Symbol |-> hitbtcTicker.Symbol, FeeCurrency |-> ""]

\* The enrichment both writer paths perform.
FeeCurrencyOf(sym) ==
    IF sym \in DOMAIN SymbolsFeeCurrency THEN SymbolsFeeCurrency[sym] ELSE ""
FullNameOf(feeCurrency) ==
    IF feeCurrency \in DOMAIN CurrencyFullName THEN CurrencyFullName[feeCurrency] ELSE ""

\* A miss record that keeps the fetched ticker's empty ID.
EnrichQuoteKeepID(hitbtcTicker) ==
    [ID |-> hitbtcTicker.ID,
     FullName |-> FullNameOf(FeeCurrencyOf(hitbtcTicker.Symbol)),
     Ask |-> hitbtcTicker.Ask, Bid |-> hitbtcTicker.Bid, Last |-> hitbtcTicker.Last,
     Open |-> hitbtcTicker.Open, Low |-> hitbtcTicker.Low, High |-> hitbtcTicker.High,
     Volume |-> hitbtcTicker.Volume, VolumeQuote |-> hitbtcTicker.VolumeQuote,
     Timestamp |-> hitbtcTicker.Timestamp, Symbol |-> hitbtcTicker.Symbol,
     FeeCurrency |-> FeeCurrencyOf(hitbtcTicker.Symbol)]

\* GetMarketSummary's record on a miss, from the fetched ticker.
EnrichQuote(hitbtcTicker) ==
    [ID |-> hitbtcTicker.Symbol,
     FullName |-> FullNameOf(FeeCurrencyOf(hitbtcTicker.Symbol)),
     Ask |-> hitbtcTicker.Ask, Bid |-> hitbtcTicker.Bid, Last |-> hitbtcTicker.Last,
     Open |-> hitbtcTicker.Open, Low |-> hitbtcTicker.Low, High |-> hitbtcTicker.High,
     Volume |-> hitbtcTicker.Volume, VolumeQuote |-> hitbtcTicker.VolumeQuote,
     Timestamp |-> hitbtcTicker.Timestamp, Symbol |-> hitbtcTicker.Symbol,
     FeeCurrency |-> FeeCurrencyOf(hitbtcTicker.Symbol)]

\* The gate tested on the fetched ticker's ID, which the endpoint leaves empty.
MissGateOnID(hitbtcTicker) == Contains(supportedSymbols, hitbtcTicker.ID)

\* The gate of the miss path: membership of the fetched ticker's symbol.
MissGate(hitbtcTicker) == Contains(supportedSymbols, hitbtcTicker.Symbol)


\* The string fields of a push notification (WSNotificationTickerResponse).
S1005 == <<"1", "0", "0", ".", "5">>
S1010 == <<"1", "0", "1", ".", "0">>
S0035 == <<"0", ".", "0", "3", "5">>
SBad == <<"a", "b", "c">>
S1 == <<"1">>
SHuge == <<"1", "e", "4", "0", "0">>
SNegHuge == <<"-", "2", "e", "3", "0", "8">>
SHex == <<"0", "x", "1", "p", "-", "2">>
SGrouped == <<"1", "_", "0", "0", "0">>
SNegZero == <<"-", "0">>
Payloads == {
    [Ask |-> S1, Bid |-> S1, Last |-> SBad, Open |-> SNegZero, Low |-> SNegHuge,
     High |-> SHuge, Volume |-> SGrouped, VolumeQuote |-> SHex, Timestamp |-> "t3"],
    [Ask |-> S1010, Bid |-> S1, Last |-> S1005, Open |-> S1, Low |-> S1,
     High |-> S1, Volume |-> S1, VolumeQuote |-> S1, Timestamp |-> "t1"],
    [Ask |-> S1, Bid |-> S1, Last |-> S0035, Open |-> SBad, Low |-> S1,
     High |-> S1, Volume |-> S1, VolumeQuote |-> <<>>, Timestamp |-> "t2"] }
Notification(sym, p) ==
    [Ask |-> p.Ask, Bid |-> p.Bid, Last |-> p.Last, Open |-> p.Open, Low |-> p.Low,
     High |-> p.High, Volume |-> p.Volume, VolumeQuote |-> p.VolumeQuote,
     Timestamp |-> p.Timestamp, Symbol |-> sym]

\* strconv.ParseFloat(s, 64). The conversions of the strings that occur in
\* the notifications above are computed once and looked up.
FieldStrings ==
    UNION {{p.Ask, p.Bid, p.Last, p.Open, p.Low, p.High, p.Volume, p.VolumeQuote} :
              p \in Payloads}
Converted == {<<s, Atof64(s)>> : s \in FieldStrings}
ParseFloat(s) ==
    IF s \in FieldStrings THEN (CHOOSE c \in Converted : c[1] = s)[2] ELSE Atof64(s)

\* handleTicker's record from a notification: every numeric field is the
\* value ParseFloat returns, its error dropped; no timestamp is set.
TickerOfNotification(hitbtcSummary) ==
    [ID |-> hitbtcSummary.Symbol,
     FullName |-> FullNameOf(FeeCurrencyOf(hitbtcSummary.Symbol)),
     Ask |-> ParseFloat(hitbtcSummary.Ask).f,
     Bid |-> ParseFloat(hitbtcSummary.Bid).f,
     Last |-> ParseFloat(hitbtcSummary.Last).f,
     Open |-> ParseFloat(hitbtcSummary.Open).f,
     Low |-> ParseFloat(hitbtcSummary.Low).f,
     High |-> ParseFloat(hitbtcSummary.High).f,
     Volume |-> ParseFloat(hitbtcSummary.Volume).f,
     VolumeQuote |-> ParseFloat(hitbtcSummary.VolumeQuote).f,
     Timestamp |-> 0, Symbol |-> hitbtcSummary.Symbol,
     FeeCurrency |-> FeeCurrencyOf(hitbtcSummary.Symbol)]

\* The gate of the push path: membership of the notification's symbol.
PushGate(hitbtcSummary) == Contains(supportedSymbols, hitbtcSummary.Symbol)

(***************************************************************************)
(* CurrencyCache: the map operations inside the critical sections          *)
(***************************************************************************)

\* m with key k bound to v (a Go map assignment).
Put(m, k, v) == [x \in DOMAIN m \cup {k} |-> IF x = k THEN v ELSE m[x]]

\* Set that keeps an entry whose timestamp is newer than the record's.
SetKeepNewer(m, currencySymbol, data) ==
    [internal |-> IF currencySymbol \in DOMAIN m
                     /\ m[currencySymbol].Timestamp > data.Timestamp
                  THEN m ELSE Put(m, currencySymbol, data),
     old |-> IF currencySymbol \in DOMAIN m THEN m[currencySymbol] ELSE Nil]

\* Set that returns the record it stores in place of the one it replaced.
SetReturnsNew(m, currencySymbol, data) ==
    [internal |-> Put(m, currencySymbol, data), old |-> data]

\* Set into a store that keeps one entry only.
SetEvicting(m, currencySymbol, data) ==
    [internal |-> [x \in {currencySymbol} |-> data],
     old |-> IF currencySymbol \in DOMAIN m THEN m[currencySymbol] ELSE Nil]

\* Set that only fills a missing entry.
SetIfAbsent(m, currencySymbol, data) ==
    [internal |-> IF currencySymbol \in DOMAIN m THEN m ELSE Put(m, currencySymbol, data),
     old |-> IF currencySymbol \in DOMAIN m THEN m[currencySymbol] ELSE Nil]

\* CurrencyCache.Set between Lock and Unlock: the map after, and the old entry.
Set(m, currencySymbol, data) ==
    [internal |-> Put(m, currencySymbol, data),
     old |-> IF currencySymbol \in DOMAIN m THEN m[currencySymbol] ELSE Nil]

\* CurrencyCache.Get between RLock and RUnlock.
Get(m, currencySymbol) ==
    [ret |-> IF currencySymbol \in DOMAIN m THEN m[currencySymbol] ELSE Nil,
     isSet |-> currencySymbol \in DOMAIN m]


(***************************************************************************)
(* State                                                                   *)
(***************************************************************************)

\* Goroutines serving callers (each runs one lookup or allCached at a time),
\* goroutines of the transport's AsyncHandler, goroutines calling
\* Wrappers.Close, and no holder.
Callers == {"c1", "c2"}
Handlers == {"h1", "h2"}
Closers == {"k1"}
None == "none"
Symbols == {supportedSymbols[i] : i \in 1..Len(supportedSymbols)}

VARIABLES
    cache,       \* CurrencyCache.internal: symbol -> record
    mutexW,      \* CurrencyCache.mutex: the goroutine holding it for writing
    mutexR,      \* CurrencyCache.mutex: the goroutines holding it for reading
    pc,          \* where each caller goroutine is
    loc,         \* each caller goroutine's locals
    lastSet,     \* history: symbol -> the record and path of the last Set
    crash,       \* the fatal error or panic that ended the process, and whose
    conn,        \* Wrappers.ws: "nil" if NewWSClient failed, else its
                 \* connection, "open" or "closed"
    remote,      \* the exchange's view of each ticker subscription
    tickerFeed,  \* notifications.TickerFeed: the symbols with a channel
    chanClosed,  \* the symbols whose update channel has been closed
    errBlocked,  \* whether a Handle goroutine is blocked sending on ErrorFeed
    nilBlocked,  \* whether a Handle goroutine is blocked sending on a nil channel
    hand,        \* the Handle goroutines between their start and their send
    ws,          \* the goroutine inside WSClient.Close: its position and the
                 \* entries its range started with and has visited
    fc,          \* FeedConnect: its state and loop index
    closer,      \* the goroutines inside Wrappers.Close: position and symbol
    task,        \* where each symbol's handleTicker goroutine is
    taskSum,     \* each handleTicker goroutine's record to set
    signalled,   \* history: the symbols of running feeds that Close was called for
    late         \* history: the symbols whose task holds a ticker that arrived
                 \* after Close was called for the symbol

store == <<cache, mutexW, mutexR, lastSet>>
callers == <<pc, loc>>
transport == <<conn, remote, tickerFeed, chanClosed, errBlocked, nilBlocked, hand, ws>>
feeds == <<fc, closer, task, taskSum, signalled, late>>
vars == <<cache, mutexW, mutexR, pc, loc, lastSet, crash, conn, remote, tickerFeed,
          chanClosed, errBlocked, nilBlocked, hand, ws, fc, closer, task,
          taskSum, signalled, late>>

NoCrash == [msg |-> "", by |-> ""]
Running == crash = NoCrash

Idle == [symbol |-> "", ret |-> Nil, exists |-> FALSE, err |-> "", fetches |-> 0,
         i |-> "", startKeys |-> {}, visited |-> {}, allData |-> <<>>, dirty |-> FALSE]

HandIdle == [pc |-> "idle", ch |-> "", msg |-> Nil, late |-> FALSE]
CloserIdle == [pc |-> "idle", m |-> ""]
WSIdle == [pc |-> "idle", start |-> {}, seen |-> {}]

\* main after NewHitBtcV2Wrapper, CacheAllSymbols and CacheFullName: the
\* error of NewWSClient is dropped, so the wrapper's client is nil when the
\* dial failed.
Init ==
    /\ cache = << >>
    /\ mutexW = None
    /\ mutexR = {}
    /\ pc = [g \in Callers |-> "idle"]
    /\ loc = [g \in Callers |-> Idle]
    /\ lastSet = << >>
    /\ crash = NoCrash
    /\ conn \in {"open", "nil"}
    /\ remote = [s \in Symbols |-> "never"]
    /\ tickerFeed = {}
    /\ chanClosed = {}
    /\ errBlocked = FALSE
    /\ nilBlocked = FALSE
    /\ hand = [h \in Handlers |-> HandIdle]
    /\ ws = WSIdle
    /\ fc = [pc |-> "idle", i |-> 1]
    /\ closer = [k \in Closers |-> CloserIdle]
    /\ task = [s \in Symbols |-> "off"]
    /\ taskSum = [s \in Symbols |-> Nil]
    /\ signalled = {}
    /\ late = {}

(***************************************************************************)
(* sync.RWMutex                                                            *)
(***************************************************************************)

Lock(g) == mutexW = None /\ mutexR = {} /\ mutexW' = g /\ UNCHANGED mutexR
Unlock(g) == mutexW = g /\ mutexW' = None /\ UNCHANGED mutexR
RLock(g) == mutexW = None /\ mutexR' = mutexR \cup {g} /\ UNCHANGED mutexW
RUnlock(g) == g \in mutexR /\ mutexR' = mutexR \ {g} /\ UNCHANGED mutexW

\* The critical section of CurrencyCache.Set run by goroutine g on path
\* ("miss" or "push"): the map is replaced, the lock released; every GetAll
\* begun and not yet taken by its caller is marked as overlapped by a write.
SetCS(g, currencySymbol, data, path, locals) ==
    /\ cache' = Set(cache, currencySymbol, data).internal
    /\ lastSet' = Put(lastSet, currencySymbol, [rec |-> data, path |-> path])
    /\ Unlock(g)
    /\ loc' = [c \in Callers |->
                 IF pc[c] \in {"ga_range", "ga_rlock", "ga_cs", "ga_done"}
                 THEN [locals[c] EXCEPT !.dirty = TRUE] ELSE locals[c]]

(***************************************************************************)
(* Wrappers.GetMarketSummary (lookup)                                      *)
(***************************************************************************)

\* The HTTP surface is served once FeedConnect has returned.
Serving == fc.pc \in {"ok", "err"}


\* handleCurrencyBySymbol: a key that AllSymbols contains is looked up with
\* GetMarketSummary, any other key is answered 404 "Not a valid Symbol".
HandleCurrencyBySymbol(g, key) ==
    /\ Running /\ Serving /\ pc[g] = "idle"
    /\ IF Contains(AllSymbols, key)
       THEN /\ pc' = [pc EXCEPT ![g] = "gms_get"]
            /\ loc' = [loc EXCEPT ![g] = [Idle EXCEPT !.symbol = key]]
       ELSE /\ pc' = [pc EXCEPT ![g] = "not_valid"]
            /\ loc' = [loc EXCEPT ![g] = [Idle EXCEPT !.symbol = key,
                                                       !.err = "Not a valid Symbol"]]
    /\ UNCHANGED <<store, crash, transport, feeds>>

\* The 404 response is written and the handler returns.
NotValidResponse(g) ==
    /\ Running /\ pc[g] = "not_valid"
    /\ pc' = [pc EXCEPT ![g] = "idle"]
    /\ loc' = [loc EXCEPT ![g] = Idle]
    /\ UNCHANGED <<store, crash, transport, feeds>>

\* GetMarketSummary(symbol) called by a user of the package.
LookupCall(g, symbol) ==
    /\ Running /\ pc[g] = "idle"
    /\ pc' = [pc EXCEPT ![g] = "gms_get"]
    /\ loc' = [loc EXCEPT ![g] = [Idle EXCEPT !.symbol = symbol]]
    /\ UNCHANGED <<store, crash, transport, feeds>>

\* summaries.Get: RLock.
LookupGetRLock(g) ==
    /\ Running /\ pc[g] = "gms_get"
    /\ RLock(g)
    /\ pc' = [pc EXCEPT ![g] = "get_cs"]
    /\ UNCHANGED <<cache, loc, lastSet, crash, transport, feeds>>

\* A read that takes a stored record with the first quote's timestamp as stale.
LookupGetReadExpired(g) ==
    /\ Running /\ pc[g] = "get_cs"
    /\ RUnlock(g)
    /\ LET r == Get(cache, loc[g].symbol)
           fresh == r.isSet /\ r.ret.Timestamp # 1
       IN  /\ loc' = [loc EXCEPT ![g].ret = r.ret, ![g].exists = fresh]
           /\ pc' = [pc EXCEPT ![g] = IF fresh THEN "gms_done" ELSE "gms_fetch"]
    /\ UNCHANGED <<cache, lastSet, crash, transport, feeds>>

\* A read that returns without releasing the read lock.
LookupGetReadHolding(g) ==
    /\ Running /\ pc[g] = "get_cs"
    /\ LET r == Get(cache, loc[g].symbol)
       IN  /\ loc' = [loc EXCEPT ![g].ret = r.ret, ![g].exists = r.isSet]
           /\ pc' = [pc EXCEPT ![g] = IF r.isSet THEN "gms_done" ELSE "gms_fetch"]
    /\ UNCHANGED <<cache, mutexW, mutexR, lastSet, crash, transport, feeds>>

\* summaries.Get: the map read and RUnlock; a hit returns at once.
LookupGetRead(g) ==
    /\ Running /\ pc[g] = "get_cs"
    /\ RUnlock(g)
    /\ LET r == Get(cache, loc[g].symbol)
       IN  /\ loc' = [loc EXCEPT ![g].ret = r.ret, ![g].exists = r.isSet]
           /\ pc' = [pc EXCEPT ![g] = IF r.isSet THEN "gms_done" ELSE "gms_fetch"]
    /\ UNCHANGED <<cache, lastSet, crash, transport, feeds>>

\* wrapper.GetTicker succeeds with quote q: the record is built, and is set
\* if the gate passes.
LookupFetchOk(g, q) ==
    /\ Running /\ pc[g] = "gms_fetch"
    /\ LET hitbtcTicker == GetTicker(loc[g].symbol, q)
       IN  /\ loc' = [loc EXCEPT ![g].ret = EnrichQuote(hitbtcTicker),
                                 ![g].fetches = @ + 1]
           /\ pc' = [pc EXCEPT ![g] = IF MissGate(hitbtcTicker)
                                      THEN "gms_set" ELSE "gms_done"]
    /\ UNCHANGED <<store, crash, transport, feeds>>

\* A failed fetch that is tried once more before the failure is returned.
LookupFetchErrRetry(g) ==
    /\ Running /\ pc[g] = "gms_fetch"
    /\ IF loc[g].fetches = 0
       THEN /\ loc' = [loc EXCEPT ![g].fetches = @ + 1]
            /\ UNCHANGED pc
       ELSE /\ loc' = [loc EXCEPT ![g].ret = Nil, ![g].err = "upstream",
                                  ![g].fetches = @ + 1]
            /\ pc' = [pc EXCEPT ![g] = "gms_done"]
    /\ UNCHANGED <<store, crash, transport, feeds>>

\* wrapper.GetTicker fails: nil and the error are returned.
LookupFetchErr(g) ==
    /\ Running /\ pc[g] = "gms_fetch"
    /\ loc' = [loc EXCEPT ![g].ret = Nil, ![g].err = "upstream", ![g].fetches = @ + 1]
    /\ pc' = [pc EXCEPT ![g] = "gms_done"]
    /\ UNCHANGED <<store, crash, transport, feeds>>

\* summaries.Set(symbol, ret): Lock.
LookupSetLock(g) ==
    /\ Running /\ pc[g] = "gms_set"
    /\ Lock(g)
    /\ pc' = [pc EXCEPT ![g] = "set_cs"]
    /\ UNCHANGED <<cache, loc, lastSet, crash, transport, feeds>>

\* summaries.Set(symbol, ret): the map write and Unlock.
LookupSetWrite(g) ==
    /\ Running /\ pc[g] = "set_cs"
    /\ SetCS(g, loc[g].symbol, loc[g].ret, "miss", loc)
    /\ pc' = [pc EXCEPT ![g] = "gms_done"]
    /\ UNCHANGED <<crash, transport, feeds>>

\* The caller takes the result.
LookupReturn(g) ==
    /\ Running /\ pc[g] = "gms_done"
    /\ pc' = [pc EXCEPT ![g] = "idle"]
    /\ loc' = [loc EXCEPT ![g] = Idle]
    /\ UNCHANGED <<store, crash, transport, feeds>>

(***************************************************************************)
(* CurrencyCache.GetAll (allCached)                                        *)
(***************************************************************************)

\* GetAll's result once the range loop has ended with allData collected.
GetAllResult(allData) ==
    IF Len(allData) = 0 THEN [records |-> <<>>, err |-> "no data present"]
    ELSE [records |-> allData, err |-> ""]

\* The call, make(...) and the start of the range statement: the iterator is
\* initialised on the map as it is, with no lock held.
GetAllCall(g) ==
    /\ Running /\ Serving /\ pc[g] = "idle"
    /\ pc' = [pc EXCEPT ![g] = "ga_range"]
    /\ loc' = [loc EXCEPT ![g] = [Idle EXCEPT !.startKeys = DOMAIN cache]]
    /\ UNCHANGED <<store, crash, transport, feeds>>

\* One step of the range statement, with no lock held: the next key, or the
\* end of the loop (at once on a map that was empty when the loop began; a key
\* added since may be produced or skipped), or, when the step overlaps a
\* writer's critical section, the runtime's fatal error.
GetAllRange(g) ==
    /\ Running /\ pc[g] = "ga_range"
    /\ LET rest == DOMAIN cache \ loc[g].visited
       IN  \/ /\ loc[g].startKeys # {}
              /\ \E k \in rest :
                    loc' = [loc EXCEPT ![g].i = k, ![g].visited = @ \cup {k}]
              /\ pc' = [pc EXCEPT ![g] = "ga_rlock"]
              /\ UNCHANGED crash
           \/ /\ rest \cap loc[g].startKeys = {}
              /\ loc' = [loc EXCEPT ![g].err = GetAllResult(loc[g].allData).err]
              /\ pc' = [pc EXCEPT ![g] = "ga_done"]
              /\ UNCHANGED crash
           \/ /\ mutexW # None
              /\ crash' = [msg |-> "concurrent map iteration and map write", by |-> g]
              /\ UNCHANGED <<pc, loc>>
    /\ UNCHANGED <<store, transport, feeds>>

\* The loop body: RLock.
GetAllRLock(g) ==
    /\ Running /\ pc[g] = "ga_rlock"
    /\ RLock(g)
    /\ pc' = [pc EXCEPT ![g] = "ga_cs"]
    /\ UNCHANGED <<cache, loc, lastSet, crash, transport, feeds>>

\* The loop body: the entry is read and appended, RUnlock.
GetAllRead(g) ==
    /\ Running /\ pc[g] = "ga_cs"
    /\ RUnlock(g)
    /\ loc' = [loc EXCEPT ![g].allData = Append(@, cache[loc[g].i])]
    /\ pc' = [pc EXCEPT ![g] = "ga_range"]
    /\ UNCHANGED <<cache, lastSet, crash, transport, feeds>>

GetAllReturn(g) ==
    /\ Running /\ pc[g] = "ga_done"
    /\ pc' = [pc EXCEPT ![g] = "idle"]
    /\ loc' = [loc EXCEPT ![g] = Idle]
    /\ UNCHANGED <<store, crash, transport, feeds>>


(***************************************************************************)
(* wsclient.WSClient: subscriptions and the notification handler           *)
(***************************************************************************)

\* subscriptionOp's c.conn on a nil client: the panic that ends the process.
NilClient(g) == [msg |-> "nil pointer dereference", by |-> g]

\* The exchange's answer true to the remote call op of subscriptionOp: the
\* subscription is turned on or off (a symbol never subscribed stays so).
SubscriptionOp(op, symbol) ==
    [remote EXCEPT ![symbol] = IF op = "subscribeTicker" THEN "on"
                               ELSE IF @ = "never" THEN "never" ELSE "off"]

\* The goroutines poised to read notifications.TickerFeed (Handle's lookup,
\* UnsubscribeTicker's close argument, SubscribeTicker's nil test and its
\* return value) and to write it (SubscribeTicker's assignment after its
\* nil test, UnsubscribeTicker's delete). Nothing orders these accesses.
TableReaders ==
    {h \in Handlers : hand[h].pc = "handle"} \cup {k \in Closers : closer[k].pc = "acked"}
        \cup (IF fc.pc \in {"acked", "made"} THEN {"main"} ELSE {})
TableWriters ==
    {k \in Closers : closer[k].pc = "closed"} \cup
    (IF fc.pc = "acked" /\ supportedSymbols[fc.i] \notin tickerFeed THEN {"main"} ELSE {})

\* Two unordered accesses of the table by different goroutines overlap and
\* one is a write: the runtime's fatal error, raised in the goroutine that
\* detects it.
TickerFeedRace ==
    /\ Running
    /\ \E w \in TableWriters :
          \/ \E r \in TableReaders \ {w} :
                crash' = [msg |-> "concurrent map read and map write", by |-> r]
          \/ \E v \in TableWriters \ {w} :
                crash' = [msg |-> "concurrent map writes", by |-> v]
    /\ UNCHANGED <<store, callers, transport, feeds>>

\* WSClient.Close, line 101: on a nil client the read of its connection
\* panics; else the connection is closed and the range over the table
\* begins.
WSCloseCall ==
    /\ Running /\ ws.pc = "idle"
    /\ IF conn = "nil"
       THEN /\ crash' = NilClient("WSClient.Close")
            /\ UNCHANGED <<conn, ws>>
       ELSE /\ conn' = "closed"
            /\ ws' = [pc |-> "range", start |-> tickerFeed, seen |-> {}]
            /\ UNCHANGED crash
    /\ UNCHANGED <<remote, tickerFeed, chanClosed, errBlocked, nilBlocked, hand, store,
                   callers, feeds>>

\* One turn of the range (103-105): an entry of the table as it is now, not
\* yet visited, is produced and its channel closed. Closing a channel that
\* UnsubscribeTicker has closed and not yet deleted panics.
WSCloseRange(s) ==
    /\ Running /\ ws.pc = "range"
    /\ s \in tickerFeed \ ws.seen
    /\ IF s \in chanClosed
       THEN /\ crash' = [msg |-> "close of closed channel", by |-> "WSClient.Close"]
            /\ UNCHANGED <<chanClosed, ws>>
       ELSE /\ chanClosed' = chanClosed \cup {s}
            /\ ws' = [ws EXCEPT !.seen = @ \cup {s}]
            /\ UNCHANGED crash
    /\ UNCHANGED <<conn, remote, tickerFeed, errBlocked, nilBlocked, hand, store,
                   callers, feeds>>

\* The range ends when every entry it started with and that is still in the
\* table has been produced (an entry created during the iteration may be
\* skipped). Then close(ErrorFeed) at 107 makes a goroutine blocked sending
\* on it panic, and the table and ErrorFeed are replaced by fresh ones (109,
\* 110). The three statements are one step: between them the table other
\* goroutines read is the one they read before 107, and a send on the
\* closed ErrorFeed panics as a send blocked before 107 does.
WSCloseReturn ==
    /\ Running /\ ws.pc = "range"
    /\ (tickerFeed \cap ws.start) \subseteq ws.seen
    /\ IF errBlocked
       THEN /\ crash' = [msg |-> "send on closed channel", by |-> "ErrorFeed"]
            /\ UNCHANGED <<tickerFeed, ws>>
       ELSE /\ tickerFeed' = {}
            /\ ws' = WSIdle
            /\ UNCHANGED crash
    /\ UNCHANGED <<conn, remote, chanClosed, errBlocked, nilBlocked, hand, store,
                   callers, feeds>>

\* A write of the table overlaps the range of WSClient.Close.
TableIterationRace ==
    /\ Running /\ ws.pc = "range" /\ TableWriters # {}
    /\ crash' = [msg |-> "concurrent map iteration and map write",
                 by |-> "WSClient.Close"]
    /\ UNCHANGED <<store, callers, transport, feeds>>

WSClose ==
    \/ WSCloseCall
    \/ \E s \in Symbols : WSCloseRange(s)
    \/ WSCloseReturn
    \/ TableIterationRace

\* A ticker notification of a subscribed symbol arrives and the AsyncHandler
\* starts responseChannels.Handle for it in a goroutine h of its own.
Deliver(h, sym, p) ==
    /\ Running /\ conn = "open" /\ remote[sym] # "never"
    /\ hand[h].pc = "idle"
    /\ hand' = [hand EXCEPT ![h] = [pc |-> "handle", ch |-> sym,
                                    msg |-> Notification(sym, p),
                                    late |-> sym \in signalled]]
    /\ UNCHANGED <<conn, ws, remote, tickerFeed, chanClosed, errBlocked, nilBlocked, store,
                   callers, feeds, crash>>

\* A notification that does not decode arrives; Handle starts for it.
DeliverMalformed(h) ==
    /\ Running /\ conn = "open" /\ \E sym \in Symbols : remote[sym] # "never"
    /\ hand[h].pc = "idle"
    /\ hand' = [hand EXCEPT ![h] = [HandIdle EXCEPT !.pc = "error"]]
    /\ UNCHANGED <<conn, ws, remote, tickerFeed, chanClosed, errBlocked, nilBlocked, store,
                   callers, feeds, crash>>

\* Handle's case "ticker": the symbol's channel is read from the table as it
\* is now and the send begins. A send on the nil channel of a symbol without
\* entry blocks forever.
HandleSend(h) ==
    /\ Running /\ hand[h].pc = "handle"
    /\ IF hand[h].ch \in tickerFeed
       THEN /\ hand' = [hand EXCEPT ![h].pc = "send"]
            /\ UNCHANGED nilBlocked
       ELSE /\ nilBlocked' = TRUE
            /\ hand' = [hand EXCEPT ![h] = HandIdle]
    /\ UNCHANGED <<conn, ws, remote, tickerFeed, chanClosed, errBlocked, store, callers,
                   feeds, crash>>

\* A decode error that ends the subscriptions: every update channel is closed.
HandleErrorClosing(h) ==
    /\ Running /\ hand[h].pc = "error"
    /\ errBlocked' = TRUE
    /\ chanClosed' = chanClosed \cup tickerFeed
    /\ hand' = [hand EXCEPT ![h] = HandIdle]
    /\ UNCHANGED <<conn, ws, remote, tickerFeed, nilBlocked, store, callers, feeds, crash>>

\* Handle's decode error: the error is sent on ErrorFeed, which nothing
\* receives from, so the goroutine blocks.
HandleError(h) ==
    /\ Running /\ hand[h].pc = "error"
    /\ errBlocked' = TRUE
    /\ hand' = [hand EXCEPT ![h] = HandIdle]
    /\ UNCHANGED <<conn, ws, remote, tickerFeed, chanClosed, nilBlocked, store, callers,
                   feeds, crash>>

\* A send on a channel that has been closed panics.
HandlePanic(h) ==
    /\ Running /\ hand[h].pc = "send" /\ hand[h].ch \in chanClosed
    /\ crash' = [msg |-> "send on closed channel", by |-> h]
    /\ UNCHANGED <<store, callers, transport, feeds>>

(***************************************************************************)
(* Wrappers.FeedConnect, subscribeFeeds and handleTicker                   *)
(***************************************************************************)

FeedConnectCall ==
    /\ Running /\ fc.pc = "idle"
    /\ fc' = [pc |-> "run", i |-> 1]
    /\ UNCHANGED <<closer, task, taskSum, signalled, late, store, callers, transport, crash>>

\* One turn of FeedConnect's loop: subscribeFeeds(m) calls SubscribeTicker,
\* whose subscriptionOp reads the client's connection (a nil client panics)
\* and sends the subscribeTicker request.
FeedSubscribeCall ==
    /\ Running /\ fc.pc = "run"
    /\ IF conn = "nil"
       THEN crash' = NilClient("main") /\ UNCHANGED fc
       ELSE fc' = [fc EXCEPT !.pc = "call"] /\ UNCHANGED crash
    /\ UNCHANGED <<closer, task, taskSum, signalled, late, store, callers, transport>>

\* The exchange turns the subscription on and answers true; tickers of the
\* symbol may arrive from now on.
FeedSubscribeAck ==
    /\ Running /\ fc.pc = "call" /\ conn = "open"
    /\ remote' = SubscriptionOp("subscribeTicker", supportedSymbols[fc.i])
    /\ fc' = [fc EXCEPT !.pc = "acked"]
    /\ UNCHANGED <<conn, ws, tickerFeed, chanClosed, errBlocked, nilBlocked, hand, closer,
                   task, taskSum, signalled, late, store, callers, crash>>

\* SubscribeTicker after the call (195-197): the channel is made if the
\* symbol has none.
FeedSubscribeMake ==
    /\ Running /\ fc.pc = "acked"
    /\ tickerFeed' = tickerFeed \cup {supportedSymbols[fc.i]}
    /\ fc' = [fc EXCEPT !.pc = "made"]
    /\ UNCHANGED <<conn, ws, remote, chanClosed, errBlocked, nilBlocked, hand, closer,
                   task, taskSum, signalled, late, store, callers, crash>>

\* SubscribeTicker returns the symbol's channel as the table has it now
\* (199) and subscribeFeeds starts the handleTicker goroutine with it; on
\* the nil channel of an entry deleted or replaced meanwhile the goroutine
\* blocks forever in its receive. The loop goes on or FeedConnect returns
\* nil.
FeedSubscribeOk ==
    /\ Running /\ fc.pc = "made"
    /\ LET m == supportedSymbols[fc.i]
       IN  task' = [task EXCEPT ![m] = IF m \in tickerFeed THEN "select" ELSE "blocked"]
    /\ fc' = IF fc.i = Len(supportedSymbols) THEN [pc |-> "ok", i |-> fc.i]
             ELSE [pc |-> "run", i |-> fc.i + 1]
    /\ UNCHANGED <<conn, ws, remote, tickerFeed, chanClosed, errBlocked, nilBlocked, hand,
                   closer, taskSum, signalled, late, store, callers, crash>>

\* The subscribe call fails: subscribeFeeds and FeedConnect return the error.
FeedSubscribeErr ==
    /\ Running /\ fc.pc = "call"
    /\ fc' = [fc EXCEPT !.pc = "err"]
    /\ UNCHANGED <<closer, task, taskSum, signalled, late, store, callers, transport, crash>>

\* handleTicker's select: nothing closes or sends on closeChan, so the
\* default branch is taken.
TaskSelect(s) ==
    /\ Running /\ task[s] = "select"
    /\ task' = [task EXCEPT ![s] = "recv"]
    /\ UNCHANGED <<fc, closer, taskSum, signalled, late, store, callers, transport, crash>>

\* default: the receive completes with the ticker Handle goroutine h sends;
\* the record is built and, if the gate passes, is to be set.
TaskRecv(s, h) ==
    /\ Running /\ task[s] = "recv"
    /\ hand[h].pc = "send" /\ hand[h].ch = s /\ s \notin chanClosed
    /\ hand' = [hand EXCEPT ![h] = HandIdle]
    /\ late' = IF hand[h].late THEN late \cup {s} ELSE late \ {s}
    /\ LET hitbtcSummary == hand[h].msg
       IN  IF PushGate(hitbtcSummary)
           THEN /\ taskSum' = [taskSum EXCEPT ![s] = TickerOfNotification(hitbtcSummary)]
                /\ task' = [task EXCEPT ![s] = "set"]
           ELSE /\ task' = [task EXCEPT ![s] = "select"]
                /\ UNCHANGED taskSum
    /\ UNCHANGED <<fc, closer, signalled, store, callers, conn, ws, remote, tickerFeed,
                   chanClosed, errBlocked, nilBlocked, crash>>

\* default: the receive finds the channel closed (!stillOpen); return.
TaskRecvClosed(s) ==
    /\ Running /\ task[s] = "recv" /\ s \in chanClosed
    /\ task' = [task EXCEPT ![s] = "exited"]
    /\ UNCHANGED <<fc, closer, taskSum, signalled, late, store, callers, transport, crash>>

\* summaries.Set(symbol, sum): Lock.
TaskSetLock(s) ==
    /\ Running /\ task[s] = "set"
    /\ Lock(s)
    /\ task' = [task EXCEPT ![s] = "set_cs"]
    /\ UNCHANGED <<cache, lastSet, fc, closer, taskSum, signalled, late, callers,
                   transport, crash>>

\* summaries.Set(symbol, sum): the map write and Unlock; back to the select.
TaskSetWrite(s) ==
    /\ Running /\ task[s] = "set_cs"
    /\ SetCS(s, s, taskSum[s], "push", loc)
    /\ task' = [task EXCEPT ![s] = "select"]
    /\ taskSum' = [taskSum EXCEPT ![s] = Nil]
    /\ late' = late \ {s}
    /\ UNCHANGED <<pc, fc, closer, signalled, transport, crash>>

\* Wrappers.Close(m) called by goroutine k: UnsubscribeTicker's
\* subscriptionOp reads the client's connection (a nil client panics) and
\* sends the unsubscribeTicker request.
CloseCall(k, m) ==
    /\ Running /\ closer[k].pc = "idle"
    /\ IF conn = "nil"
       THEN /\ crash' = NilClient(k)
            /\ UNCHANGED <<closer, signalled>>
       ELSE /\ closer' = [closer EXCEPT ![k] = [pc |-> "call", m |-> m]]
            /\ signalled' = IF task[m] \in {"off", "exited"} THEN signalled
                            ELSE signalled \cup {m}
            /\ UNCHANGED crash
    /\ UNCHANGED <<fc, task, taskSum, late, store, callers, transport>>

\* The exchange turns the subscription off and answers true.
UnsubscribeAck(k) ==
    /\ Running /\ closer[k].pc = "call" /\ conn = "open"
    /\ remote' = SubscriptionOp("unsubscribeTicker", closer[k].m)
    /\ closer' = [closer EXCEPT ![k].pc = "acked"]
    /\ UNCHANGED <<conn, ws, tickerFeed, chanClosed, errBlocked, nilBlocked, hand, fc, task,
                   taskSum, signalled, late, store, callers, crash>>

\* The unsubscribe call fails: UnsubscribeTicker returns the error, which
\* Wrappers.Close drops; nothing changes.
UnsubscribeErr(k) ==
    /\ Running /\ closer[k].pc = "call"
    /\ closer' = [closer EXCEPT ![k] = CloserIdle]
    /\ UNCHANGED <<fc, task, taskSum, signalled, late, store, callers, transport, crash>>

\* UnsubscribeTicker after the call: close(TickerFeed[symbol]). Closing the
\* nil channel of a symbol without entry panics, and so does closing a
\* channel a second time.
UnsubscribeClose(k) ==
    /\ Running /\ closer[k].pc = "acked"
    /\ LET m == closer[k].m
       IN  IF m \notin tickerFeed
           THEN /\ crash' = [msg |-> "close of nil channel", by |-> k]
                /\ UNCHANGED <<chanClosed, closer>>
           ELSE IF m \in chanClosed
           THEN /\ crash' = [msg |-> "close of closed channel", by |-> k]
                /\ UNCHANGED <<chanClosed, closer>>
           ELSE /\ chanClosed' = chanClosed \cup {m}
                /\ closer' = [closer EXCEPT ![k].pc = "closed"]
                /\ UNCHANGED crash
    /\ UNCHANGED <<conn, ws, remote, tickerFeed, errBlocked, nilBlocked, hand, fc, task,
                   taskSum, signalled, late, store, callers>>

\* UnsubscribeTicker's delete(TickerFeed, symbol) and the return.
UnsubscribeDelete(k) ==
    /\ Running /\ closer[k].pc = "closed"
    /\ tickerFeed' = tickerFeed \ {closer[k].m}
    /\ closer' = [closer EXCEPT ![k] = CloserIdle]
    /\ UNCHANGED <<conn, ws, remote, chanClosed, errBlocked, nilBlocked, hand, fc, task,
                   taskSum, signalled, late, store, callers, crash>>

\* The goroutine FeedConnect starts receives SIGINT or SIGTERM: os.Exit(0).
Interrupt ==
    /\ Running /\ fc.pc # "idle"
    /\ crash' = [msg |-> "os.Exit(0)", by |-> "signal"]
    /\ UNCHANGED <<store, callers, transport, feeds>>

\* FeedConnect with an exchange that accepts every subscription.
FeedStart ==
    \/ FeedConnectCall
    \/ FeedSubscribeCall
    \/ FeedSubscribeAck
    \/ FeedSubscribeMake
    \/ FeedSubscribeOk

FeedConnect == FeedStart \/ FeedSubscribeErr

Handle(hs, syms, ps) ==
    \E h \in hs :
        \/ \E sym \in syms, p \in ps : Deliver(h, sym, p)
        \/ HandleSend(h)

HandleMalformed(hs) ==
    \E h \in hs : DeliverMalformed(h) \/ HandleError(h)

HandleTicker ==
    \E s \in Symbols :
        \/ TaskSelect(s)
        \/ \E h \in Handlers : TaskRecv(s, h)
        \/ TaskSetLock(s)
        \/ TaskSetWrite(s)

HandleTickerExit == \E s \in Symbols : TaskRecvClosed(s)

Close(ks, ms) ==
    \E k \in ks :
        \/ \E m \in ms : CloseCall(k, m)
        \/ UnsubscribeAck(k)
        \/ UnsubscribeErr(k)
        \/ UnsubscribeClose(k)
        \/ UnsubscribeDelete(k)

\* Unsubscribes and the shutdown of the process.
Shutdown(ks, ms) ==
    \/ \E h \in Handlers : HandlePanic(h)
    \/ Close(ks, ms)
    \/ Interrupt

\* Every teardown: unsubscribes, shutdown and the close of the client.
Teardown(ks, ms) ==
    \/ Shutdown(ks, ms)
    \/ WSClose

Lookup(g) ==
    \/ LookupGetRLock(g)
    \/ LookupGetRead(g)
    \/ \E q \in Quotes : LookupFetchOk(g, q)
    \/ LookupFetchErr(g)
    \/ LookupSetLock(g)
    \/ LookupSetWrite(g)
    \/ LookupReturn(g)

\* Requests of the currency route with the keys of ks.
Requests(gs, ks) ==
    \E g \in gs :
        \/ \E key \in ks : HandleCurrencyBySymbol(g, key)
        \/ NotValidResponse(g)
        \/ Lookup(g)

\* Calls of GetMarketSummary by a user of the package with the symbols of syms.
Lookups(gs, syms) ==
    \E g \in gs :
        \/ \E symbol \in syms : LookupCall(g, symbol)
        \/ Lookup(g)

AllCached(gs) ==
    \E g \in gs :
        \/ GetAllCall(g)
        \/ GetAllRange(g)
        \/ GetAllRLock(g)
        \/ GetAllRead(g)
        \/ GetAllReturn(g)

Pushed == {p \in Payloads : p.Last = S1005}

\* The server: requests of both routes, and the feeds in steady operation.
Next ==
    \/ FeedStart
    \/ Handle({"h1"}, {"ETHBTC"}, Pushed)
    \/ TickerFeedRace
    \/ HandleTicker
    \/ Requests(Callers, RequestKeys)
    \/ AllCached({"c1"})

Spec == Init /\ [][Next]_vars

\* The package used directly: GetMarketSummary called with any symbol, and
\* the feeds in steady operation.
CoreNext ==
    \/ FeedStart
    \/ Handle({"h1"}, {"ETHBTC"}, Pushed)
    \/ TickerFeedRace
    \/ HandleTicker
    \/ Lookups({"c1"}, LookupSymbols)

CoreSpec == Init /\ [][CoreNext]_vars

\* The feeds through their whole life: startup, pushes, and every teardown.
FeedNext ==
    \/ FeedConnect
    \/ Handle({"h1"}, {"ETHBTC"}, Pushed)
    \/ HandleMalformed({"h1"})
    \/ TickerFeedRace
    \/ HandleTicker
    \/ HandleTickerExit
    \/ Teardown(Closers, {"ETHBTC"})

FeedSpec == Init /\ [][FeedNext]_vars

\* The feeds in steady operation with malformed messages among the pushes.
PushNext ==
    \/ FeedStart
    \/ Handle(Handlers, Symbols, Pushed)
    \/ HandleMalformed(Handlers)
    \/ TickerFeedRace
    \/ HandleTicker

PushSpec == Init /\ [][PushNext]_vars

\* The push path on every payload, well-formed or not, for one symbol.
ConvNext ==
    \/ FeedStart
    \/ Handle({"h1"}, {"ETHBTC"}, Payloads)
    \/ TickerFeedRace
    \/ HandleTicker

ConvSpec == Init /\ [][ConvNext]_vars

\* One caller's lookups together with the feeds from startup to their
\* unsubscribes and the shutdown of the process.
LifeNext ==
    \/ FeedConnect
    \/ Handle({"h1"}, {"ETHBTC"}, Pushed)
    \/ TickerFeedRace
    \/ HandleTicker
    \/ HandleTickerExit
    \/ Shutdown(Closers, {"ETHBTC"})
    \/ Requests({"c1"}, {"BTCUSD", "ethbtc"})

LifeSpec == Init /\ [][LifeNext]_vars

\* One caller's lookups of every symbol together with the pushes of both feeds.
EnrichNext ==
    \/ FeedStart
    \/ Handle({"h1"}, Symbols, Pushed)
    \/ TickerFeedRace
    \/ HandleTicker
    \/ Lookups({"c1"}, {AllSymbols[i] : i \in 1..Len(AllSymbols)} \cup UnlistedSymbols)

EnrichSpec == Init /\ [][EnrichNext]_vars

(***************************************************************************)
(* Properties                                                              *)
(***************************************************************************)

Supported(sym) == Contains(supportedSymbols, sym)
HoldsLock(g) == mutexW = g \/ g \in mutexR
InGetAll(g) == pc[g] \in {"ga_range", "ga_rlock", "ga_cs", "ga_done"}
InLookup(g) == pc[g] \in {"gms_get", "get_cs", "gms_fetch", "gms_set", "set_cs", "gms_done"}
Records(seq) == {seq[i] : i \in 1..Len(seq)}

\* C1. Last-write-wins: in every reachable state, for every symbol that has
\* had a completed set, get returns found and exactly the record of the last
\* set, whichever path made it and whatever the timestamps.
C1_LastWriteWins ==
    \A sym \in DOMAIN lastSet :
        Get(cache, sym) = [ret |-> lastSet[sym].rec, isSet |-> TRUE]

\* C1 witness: a miss-fill for a symbol has completed and a later push has
\* overwritten it with a record whose (zero) timestamp is older.
C1_Witness ==
    \E g \in Callers, sym \in DOMAIN lastSet :
        /\ pc[g] = "gms_done" /\ loc[g].symbol = sym /\ ~loc[g].exists
        /\ loc[g].err = "" /\ loc[g].ret.Timestamp > 0
        /\ lastSet[sym].path = "push"
        /\ Get(cache, sym).ret.Timestamp = 0

\* C2. No goroutine reads or iterates the map while a set is writing it (every
\* access of get, set and getAll is made with the lock held), and no operation
\* ends in the runtime's concurrent-map fatal error.
C2_NoAccessDuringWrite ==
    /\ \A g \in Callers :
          (pc[g] \in {"get_cs", "set_cs", "ga_range", "ga_cs"} /\ mutexW \notin {None, g})
              => HoldsLock(g)
    /\ crash.msg # "concurrent map iteration and map write"

\* C3. getAll begun on a store with no entry fails with "no data present" and
\* no records; getAll begun after a completed set succeeds: it does not die,
\* and returns a non-empty sequence with a record for each symbol stored,
\* which is the stored record when no set overlapped the call.
C3_GetAllOutcome ==
    \A g \in Callers :
        /\ (pc[g] = "ga_done" /\ loc[g].startKeys = {}) =>
              (loc[g].err = "no data present" /\ loc[g].allData = <<>>)
        /\ (InGetAll(g) /\ loc[g].startKeys # {}) => crash.by # g
        /\ (pc[g] = "ga_done" /\ loc[g].startKeys # {}) =>
              /\ loc[g].err = "" /\ loc[g].allData # <<>>
              /\ loc[g].startKeys \subseteq loc[g].visited
              /\ Len(loc[g].allData) = Cardinality(loc[g].visited)
              /\ ~loc[g].dirty => Records(loc[g].allData) = {cache[k] : k \in DOMAIN cache}

\* C4. A lookup for a symbol outside the supported set never changes the
\* store: no step of such a lookup changes the map.
C4_UnsupportedLookupLeavesStore ==
    [][\A g \in Callers :
          (InLookup(g) /\ ~Supported(loc[g].symbol) /\ pc'[g] # pc[g])
              => cache' = cache]_vars

\* C5. Every key of the store is a member of the supported symbol set.
C5_StoreKeysSupported == \A k \in DOMAIN cache : Supported(k)

\* C6. Lookups that miss on the same supported symbol each make one fetch of
\* their own and return records with the same enrichment (equal when the
\* quotes are); once they have all completed the store holds the entry for
\* the symbol, and it is one of their records unless a push has replaced it.
MissedOn(g, sym) ==
    pc[g] = "gms_done" /\ loc[g].symbol = sym /\ ~loc[g].exists /\ loc[g].err = ""
QuoteOf(r) ==
    [Last |-> r.Last, Ask |-> r.Ask, Bid |-> r.Bid, Open |-> r.Open, Low |-> r.Low,
     High |-> r.High, Volume |-> r.Volume, VolumeQuote |-> r.VolumeQuote,
     Timestamp |-> r.Timestamp]
C6_ConcurrentMisses ==
    \A sym \in Symbols :
        /\ \A g \in Callers : MissedOn(g, sym) =>
              /\ loc[g].fetches = 1
              /\ QuoteOf(loc[g].ret) \in Quotes
              /\ loc[g].ret.Symbol = sym /\ loc[g].ret.ID = sym
              /\ loc[g].ret.FeeCurrency = SymbolsFeeCurrency[sym]
              /\ loc[g].ret.FullName =
                    (IF sym = "ETHBTC" THEN "Bitcoin" ELSE "")
        /\ \A g1, g2 \in Callers :
              (MissedOn(g1, sym) /\ MissedOn(g2, sym)
                  /\ QuoteOf(loc[g1].ret) = QuoteOf(loc[g2].ret))
                  => loc[g1].ret = loc[g2].ret
        /\ (\A g \in Callers : MissedOn(g, sym)) =>
              /\ sym \in DOMAIN cache
              /\ lastSet[sym].path = "miss" => \E g \in Callers : cache[sym] = loc[g].ret

\* C6 witness: two lookups missed on the same supported symbol, each fetched
\* once, and they hold the records of two different quotes.
C6_Witness ==
    \E sym \in Symbols :
        /\ \A g \in Callers : MissedOn(g, sym) /\ loc[g].fetches = 1
        /\ loc["c1"].ret # loc["c2"].ret
        /\ sym \in DOMAIN cache

\* C7. After an unsubscribe or shutdown signal for a symbol, no push-sourced
\* set occurs for it of a record the transport delivers after the signal.
C7_NoPushSetAfterSignal ==
    [][\A s \in Symbols :
          (task[s] = "set_cs" /\ task'[s] # "set_cs") => s \notin late]_vars

\* C8. After the process-wide shutdown signal (SIGINT or SIGTERM, answered
\* with os.Exit) no subscription is left on at the transport: every listening
\* task has unsubscribed before the process ends.
C8_ShutdownStopsAll ==
    crash.msg = "os.Exit(0)" => \A s \in Symbols : remote[s] # "on"

\* C9. Teardown closes each symbol's channel exactly once: no close of a
\* closed channel, no close of a missing (nil) channel, and the channel of
\* every subscription torn down at the transport has been closed once the
\* unsubscribe that tore it down has got to its close.
C9_ChannelClosedOnce ==
    /\ crash.msg \notin {"close of nil channel", "close of closed channel"}
    /\ \A s \in Symbols :
          (remote[s] = "off" /\ \A k \in Closers : ~(closer[k].pc = "acked" /\ closer[k].m = s))
              => s \in chanClosed

\* C10. When FeedConnect has returned, whether with a subscribe failure or
\* not, every symbol other than the failing one has been subscribed and its
\* listening task started.
C10_FailureDoesNotAbortOthers ==
    fc.pc \in {"ok", "err"} =>
        \A j \in 1..Len(supportedSymbols) :
            (fc.pc = "err" /\ j = fc.i) \/
            (remote[supportedSymbols[j]] # "never" /\ task[supportedSymbols[j]] # "off")

\* C11. A decode error is sent on the error channel, which nothing reads, and
\* does not end the subscriptions: while the report is pending and the process
\* runs, every started feed stays subscribed with its channel open and its
\* listening task alive, a well-formed ticker that arrives is handed to a
\* handler, which finds the symbol's channel and sends, a ticker being sent is
\* received by the task waiting for it, and a record the task built is set
\* into the store as soon as the lock is free.
C11_DecodeErrorLeavesFeed ==
    (Running /\ errBlocked) =>
        \A s \in Symbols : task[s] # "off" =>
            /\ remote[s] = "on" /\ s \in tickerFeed /\ s \notin chanClosed
            /\ task[s] \in {"select", "recv", "set", "set_cs"}
            /\ \A h \in Handlers :
                  /\ hand[h].pc = "idle" => \A p \in Pushed : ENABLED Deliver(h, s, p)
                  /\ (hand[h].pc = "handle" /\ hand[h].ch = s) => ENABLED HandleSend(h)
                  /\ (hand[h].pc = "send" /\ hand[h].ch = s /\ task[s] = "recv")
                        => ENABLED TaskRecv(s, h)
            /\ (task[s] = "set" /\ mutexW = None /\ mutexR = {}) => ENABLED TaskSetLock(s)
            /\ task[s] = "set_cs" => ENABLED TaskSetWrite(s)

\* C11 witness: the report of a decode error is pending on the error channel,
\* a push for one symbol has been merged and a ticker for the other symbol is
\* being delivered.
C11_Witness ==
    /\ Running /\ errBlocked
    /\ \E s \in DOMAIN cache, h \in Handlers :
          /\ lastSet[s].path = "push"
          /\ hand[h].pc = "send" /\ hand[h].ch # s

\* C12. A push update for a supported symbol overwrites unconditionally: the
\* listening task never takes the read lock (it makes no get), and the step
\* that completes its set leaves get(S) returning the record converted from
\* the update, whatever was stored before.
C12_PushOverwrites ==
    [][\A s \in Symbols :
          /\ s \notin mutexR'
          /\ (task[s] = "set_cs" /\ task'[s] = "select") =>
                /\ taskSum[s] \in {TickerOfNotification(Notification(s, p)) : p \in Payloads}
                /\ Get(cache', s) = [ret |-> taskSum[s], isSet |-> TRUE]]_vars

\* C12 witness: a lookup hit on the record a fetch had stored for a symbol,
\* and a push has since replaced that record.
C12_Witness ==
    \E g \in Callers, s \in DOMAIN lastSet :
        /\ pc[g] = "gms_done" /\ loc[g].symbol = s /\ loc[g].exists
        /\ loc[g].ret.Timestamp > 0
        /\ lastSet[s].path = "push" /\ cache[s] = lastSet[s].rec
        /\ cache[s] # loc[g].ret

\* C13. A lookup that finds the symbol in the store returns exactly the
\* stored record, whatever its age, makes no fetch and leaves the store
\* unchanged: after the read its only step is the return.
C13_HitReturnsStored ==
    [][\A g \in Callers :
          /\ (pc[g] = "get_cs" /\ pc'[g] # "get_cs" /\ loc[g].symbol \in DOMAIN cache) =>
                /\ pc'[g] = "gms_done" /\ loc'[g].exists
                /\ loc'[g].ret = cache[loc[g].symbol]
                /\ cache' = cache
          /\ (pc[g] = "gms_done" /\ loc[g].exists) =>
                /\ loc[g].fetches = 0 /\ loc[g].err = ""
                /\ pc'[g] # pc[g] => (pc'[g] = "idle" /\ cache' = cache)]_vars

\* C13 witness: two lookups hit on the same symbol and hold the same stored
\* record, neither having fetched.
C13_Witness ==
    \E sym \in DOMAIN cache :
        \A g \in Callers :
            /\ pc[g] = "gms_done" /\ loc[g].symbol = sym /\ loc[g].exists
            /\ loc[g].ret = cache[sym] /\ loc[g].fetches = 0

\* C14. When the fetch of a missed lookup fails, the lookup returns the
\* failure and no record after exactly one fetch attempt, and none of its
\* steps changes the store.
C14_FetchFailure ==
    [][\A g \in Callers :
          /\ (pc[g] \in {"gms_get", "get_cs", "gms_fetch"} /\ pc'[g] # pc[g])
                => cache' = cache
          /\ (pc[g] = "gms_fetch" /\ loc'[g].err # "") => pc'[g] = "gms_done"
          /\ (pc[g] = "gms_done" /\ loc[g].err # "") =>
                /\ loc[g].ret = Nil /\ loc[g].fetches = 1 /\ ~loc[g].exists
                /\ pc'[g] # pc[g] => (pc'[g] = "idle" /\ cache' = cache)]_vars

\* C14 witness: a lookup of a symbol the store does not hold has failed in
\* its fetch while the store holds other entries.
C14_Witness ==
    \E g \in Callers :
        /\ pc[g] = "gms_done" /\ loc[g].err = "upstream" /\ loc[g].fetches = 1
        /\ loc[g].symbol \notin DOMAIN cache /\ DOMAIN cache # {}

\* C15. No global lock serializes the store across symbols: while a writer
\* is inside its set for one symbol, a get or a set for a different symbol
\* that is about to take the lock can take it.
C15_NoGlobalLock ==
    \A g \in Callers :
        LET otherWriter ==
                \/ \E s \in Symbols : task[s] = "set_cs" /\ s # loc[g].symbol
                \/ \E w \in Callers \ {g} :
                      pc[w] = "set_cs" /\ loc[w].symbol # loc[g].symbol
        IN  /\ (pc[g] = "gms_get" /\ otherWriter) => ENABLED LookupGetRLock(g)
            /\ (pc[g] = "gms_set" /\ otherWriter) => ENABLED LookupSetLock(g)

\* C16. Store entries are never deleted: no step of a lookup, a push, an
\* unsubscribe or a shutdown removes a key, so a symbol that get finds is
\* found by get after every later step.
C16_EntriesNeverDeleted ==
    [][\A k \in DOMAIN cache : k \in DOMAIN cache' /\ Get(cache', k).isSet]_vars

\* C16 witness: the store holds an entry from a lookup and one from a push
\* after the pushed symbol's feed has been unsubscribed, its channel closed
\* and deleted and its task has exited.
C16_Witness ==
    \E k1, k2 \in DOMAIN cache :
        /\ k1 # k2 /\ lastSet[k1].path = "miss" /\ lastSet[k2].path = "push"
        /\ task[k2] = "exited" /\ k2 \in signalled
        /\ remote[k2] = "off" /\ k2 \in chanClosed /\ k2 \notin tickerFeed

\* C17. When the transport has closed a symbol's update channel (client
\* Close), the symbol's listening task exits without a panic: it is not
\* killed by a panic before it has returned, its receive finds the channel
\* closed and returns, it takes no further record to set, and the symbol is
\* not subscribed again.
C17_TransportCloseHandled ==
    [][\A s \in Symbols :
          (conn = "closed" /\ s \in chanClosed /\ task[s] \notin {"off", "exited"}) =>
              /\ crash'.msg \notin {"send on closed channel", "close of nil channel",
                                     "close of closed channel"}
              /\ (task[s] = "recv" /\ task'[s] # "recv") => task'[s] = "exited"
              /\ task'[s] = "set" => task[s] = "set"
              /\ ~(fc.pc = "call" /\ supportedSymbols[fc.i] = s /\ fc'.pc = "acked")
              /\ remote[s] # "on" => remote'[s] # "on"]_vars

\* The state of a symbol's feed: Subscribing while its subscribe call is in
\* flight or answered and its task not yet started, Active while its
\* listening task runs and nothing has told the feed to stop, Closing from
\* the call of Close or the close of its channel until the task has
\* returned, Unsubscribed otherwise.
FeedState(s) ==
    IF task[s] = "off" /\ fc.pc \in {"call", "acked", "made"} /\ supportedSymbols[fc.i] = s
    THEN "Subscribing"
    ELSE IF task[s] \in {"off", "exited"} THEN "Unsubscribed"
    ELSE IF s \in signalled \/ s \in chanClosed THEN "Closing"
    ELSE "Active"

\* C18. Each symbol's feed follows Unsubscribed -> Subscribing -> Active ->
\* Closing -> Unsubscribed (a failed subscribe returns it to Unsubscribed),
\* and its listening task takes a pushed record for the store only while the
\* feed is Active.
C18_FeedStateMachine ==
    [][\A s \in Symbols :
          /\ \/ FeedState(s)' = FeedState(s)
             \/ <<FeedState(s), FeedState(s)'>> \in
                   { <<"Unsubscribed", "Subscribing">>, <<"Subscribing", "Active">>,
                     <<"Subscribing", "Unsubscribed">>, <<"Active", "Closing">>,
                     <<"Closing", "Unsubscribed">> }
          /\ (task[s] = "recv" /\ task'[s] = "set") => FeedState(s) = "Active"]_vars

\* C19. In the push path a field whose conversion fails becomes zero and
\* every other field keeps its converted value; the record is not dropped
\* and is set into the store.
FieldConverted(str, v) ==
    v = (IF ParseFloat(str).err = "" THEN ParseFloat(str).f ELSE Zero(FALSE))
C19_FailedFieldIsZero ==
    [][\A s \in Symbols :
          /\ \A h \in Handlers :
                (task[s] = "recv" /\ hand[h].pc = "send" /\ hand[h].ch = s
                    /\ hand'[h].pc = "idle") =>
                    /\ task'[s] = "set"
                    /\ FieldConverted(hand[h].msg.Last, taskSum'[s].Last)
                    /\ FieldConverted(hand[h].msg.Ask, taskSum'[s].Ask)
                    /\ FieldConverted(hand[h].msg.Bid, taskSum'[s].Bid)
                    /\ FieldConverted(hand[h].msg.Open, taskSum'[s].Open)
                    /\ FieldConverted(hand[h].msg.Low, taskSum'[s].Low)
                    /\ FieldConverted(hand[h].msg.High, taskSum'[s].High)
                    /\ FieldConverted(hand[h].msg.Volume, taskSum'[s].Volume)
                    /\ FieldConverted(hand[h].msg.VolumeQuote, taskSum'[s].VolumeQuote)
          /\ (task[s] = "set_cs" /\ task'[s] = "select") => cache'[s] = taskSum[s]]_vars

\* C20. Both writer paths apply the same enrichment: every record a missed
\* lookup returns and every record the push path builds or stores has the
\* fee currency of the table entry for its symbol (empty if there is none),
\* the display name of the table entry for that fee currency (empty if there
\* is none), and its symbol as id.
Enriched(r) ==
    /\ r.ID = r.Symbol
    /\ r.FeeCurrency = (IF r.Symbol \in DOMAIN SymbolsFeeCurrency
                         THEN SymbolsFeeCurrency[r.Symbol] ELSE "")
    /\ r.FullName = (IF r.FeeCurrency \in DOMAIN CurrencyFullName
                      THEN CurrencyFullName[r.FeeCurrency] ELSE "")
C20_SameEnrichment ==
    /\ \A g \in Callers :
          (pc[g] = "gms_done" /\ ~loc[g].exists /\ loc[g].err = "") => Enriched(loc[g].ret)
    /\ \A s \in Symbols : taskSum[s] # Nil => Enriched(taskSum[s])
    /\ \A k \in DOMAIN lastSet : Enriched(lastSet[k].rec)

\* C20 witness: a missed lookup has returned a record for a symbol without
\* fee currency while the store holds a pushed record whose fee currency has
\* a display name and one whose fee currency has none.
C20_Witness ==
    /\ \E g \in Callers :
          /\ pc[g] = "gms_done" /\ ~loc[g].exists /\ loc[g].err = ""
          /\ loc[g].ret.FeeCurrency = ""
    /\ \E k1, k2 \in DOMAIN lastSet :
          /\ lastSet[k1].path = "push" /\ lastSet[k1].rec.FullName = "Bitcoin"
          /\ lastSet[k2].path = "push" /\ lastSet[k2].rec.FeeCurrency = "USD"
          /\ lastSet[k2].rec.FullName = ""

\* C21. set(S, r) replaces the entry for S atomically and returns the record
\* stored for S immediately before it (nothing if there was none): a writer
\* in its critical section holds the lock alone, and the step that completes
\* a set, from either path, stores r under S, leaves every other entry as it
\* was, and has as previous value the entry it replaced. Each set thus hands
\* on the record it overwrites, so no record set is lost between two sets.
SetStep(k, data) ==
    LET r == Set(cache, k, data)
    IN  /\ cache' = r.internal
        /\ DOMAIN cache' = DOMAIN cache \cup {k} /\ cache'[k] = data
        /\ \A x \in DOMAIN cache \ {k} : cache'[x] = cache[x]
        /\ r.old = (IF k \in DOMAIN cache THEN cache[k] ELSE Nil)
        /\ k \in DOMAIN lastSet => r.old = lastSet[k].rec
C21_SetReturnsPrevious ==
    [][/\ \A g \in Callers :
             pc[g] = "set_cs" =>
                 /\ mutexW = g /\ mutexR = {}
                 /\ pc'[g] # "set_cs" => SetStep(loc[g].symbol, loc[g].ret)
       /\ \A s \in Symbols :
             task[s] = "set_cs" =>
                 /\ mutexW = s /\ mutexR = {}
                 /\ task'[s] # "set_cs" => SetStep(s, taskSum[s])]_vars

\* C21 witness: a missed lookup is inside its set for a symbol whose entry a
\* push stored last, and the set returns that pushed record as the previous
\* value.
C21_Witness ==
    \E g \in Callers :
        /\ pc[g] = "set_cs" /\ loc[g].symbol \in DOMAIN lastSet
        /\ lastSet[loc[g].symbol].path = "push"
        /\ Set(cache, loc[g].symbol, loc[g].ret).old = lastSet[loc[g].symbol].rec
        /\ loc[g].ret # cache[loc[g].symbol]

\* C22. A transport delivery never sends on a closed or missing update
\* channel: no handler's send of a decoded ticker panics on a closed channel
\* and none blocks for ever on the nil channel of a symbol without entry.
C22_NoSendOnClosedOrMissing ==
    /\ ~nilBlocked
    /\ ~(crash.msg = "send on closed channel" /\ crash.by \in Handlers)

\* C23. The resolver never holds the store lock across its fetch, and every
\* store operation has released the lock when it returns: a goroutine holds
\* the lock only inside the critical section of get, set or getAll's loop
\* body, so a lookup whose fetch is in flight keeps no other operation from
\* taking the lock.
C23_NoLockAcrossFetch ==
    /\ \A g \in Callers :
          /\ HoldsLock(g) => pc[g] \in {"get_cs", "set_cs", "ga_cs"}
          /\ pc[g] = "gms_fetch" => (mutexW # g /\ g \notin mutexR)
    /\ \A s \in Symbols : HoldsLock(s) => task[s] = "set_cs"
    /\ mutexW \in Callers \cup Symbols \cup {None}
    /\ mutexR \subseteq Callers

\* C23 witness: while one lookup's fetch for a symbol is in flight, the other
\* caller is inside its set for the same symbol.
C23_Witness ==
    \E g, w \in Callers :
        /\ g # w /\ pc[g] = "gms_fetch" /\ pc[w] = "set_cs"
        /\ loc[w].symbol = loc[g].symbol /\ mutexW = w

====
